---------------------------- MODULE Spec2Model ----------------------------
(***************************************************************************)
(* A model of TFTPRouterFlasher (src/src/tftp_router_flasher/main.py).     *)
(*                                                                         *)
(* One run of main(): argument validation, the direct attempt of           *)
(* upload_firmware, the consent prompt, the fallback sweep of              *)
(* try_default_ip_range (configure_interface, settle pause, ping_host)     *)
(* and upload_binary_using_tftp.  The program is sequential; pc is the     *)
(* position of the single thread of control.  The environment (the ICMP    *)
(* echo results, the operator's answer, the TFTP transfer's outcome, the   *)
(* verdict of the OS on each kind of "ip" command) is nondeterministic.    *)
(*                                                                         *)
(* IPv4 addresses are tuples of four octets; file paths and the operator's *)
(* answer are tuples of one-character strings.                             *)
(***************************************************************************)
EXTENDS Integers, Sequences, FiniteSets, TLC

VARIABLES
    \* ---- command line (argparse, main.py:299-315) and environment
    hostname,      \* args.hostname
    interface,     \* args.interface
    firmware,      \* args.firmware
    timeout,       \* args.timeout
    no_ping,       \* args.no_ping
    osRejects,     \* the kinds of "ip" command the OS rejects in this run
    iface,         \* the interface's IPv4 state: [addrs, up]
    route,         \* the default route's gateway, NoAddr when there is none
    \* ---- control state
    pc,            \* position of the thread of control
    pingIp,        \* ping_host: parameter ip
    pingRetries,   \* ping_host: parameter retries
    pingDelay,     \* ping_host: parameter delay
    pingCaller,    \* ping_host: who called ("direct" or "sweep")
    pingAttempt,   \* ping_host: number of completed loop iterations
    pingRet,       \* ping_host: value returned by the last call
    ans,           \* upload_firmware: ans, the normalised answer
    sweepI,        \* try_default_ip_range: loop variable i
    upHost,        \* upload_binary_using_tftp: parameter hostname
    upRet,         \* value returned by upload_binary_using_tftp
    ufRet,         \* value returned by upload_firmware
    exitCode,      \* the process's exit code, -1 while it runs
    \* ---- observations of the calls made so far
    nUfCalls,      \* calls of upload_firmware
    nProbe,        \* calls of ping_host
    nEcho,         \* "ping -c 1" commands run
    echoRcs,       \* return codes of the echoes of the current ping_host call
    nPingSleep,    \* time.sleep(delay) calls of ping_host
    slept,         \* seconds spent in time.sleep
    typed,         \* the line the operator has typed, until input() returns it
    nPrompt,       \* input() calls that have returned
    nSweep,        \* calls of try_default_ip_range
    nConfig,       \* calls of configure_interface
    cfgArgs,       \* configure_interface: its parameters
    nSettle,       \* time.sleep(2) calls of try_default_ip_range
    cfgDone,       \* "ip" commands of the current configure_interface call, with rc
    lastProbe,     \* per probed address: the result of its last probe
    uploads,       \* the calls of upload_binary_using_tftp, in order
    sessions,      \* TftpClient constructions and upload calls, in order
    tftpOutcome,   \* what tftpy did in the last upload_binary_using_tftp call
    log,           \* logger calls at warning and error severity, in order
    nInfo,         \* logger.info calls
    nDebug         \* logger.debug calls

vars == << hostname, interface, firmware, timeout, no_ping, osRejects, iface,
           route, pc, pingIp, pingRetries, pingDelay, pingCaller, pingAttempt, pingRet, ans, typed, sweepI,
           upHost, upRet, ufRet, exitCode, nUfCalls, nProbe, nEcho, echoRcs, nPingSleep, slept,
           nPrompt, nSweep, nConfig, cfgArgs, nSettle, cfgDone, lastProbe,
           uploads, sessions, tftpOutcome, log, nInfo, nDebug >>

env == << hostname, interface, firmware, timeout, no_ping, osRejects >>

-----------------------------------------------------------------------------
(* Program constants *)

\* (a ping_host that gives up after one echo)
RetriesOnce == 1
\* ping_host(retries=3, delay=1)
Retries == 3
Delay == 1
\* try_default_ip_range: time.sleep(2)
SettleDelay == 2
\* try_default_ip_range: range(2, 26)
RangeStart == 2
\* (a sweep that stops one candidate early)
RangeStopShort == 25
RangeStop == 26
\* tftpy.TftpClient(hostname, 69)
TftpPort == 69
\* argparse default of --timeout
DefaultTimeout == 120

\* "192.168.1.1": the default of --hostname and the sweep's fixed peer
Gateway == << 192, 168, 1, 1 >>
\* f"192.168.1.{i}"
TestIp(i) == << 192, 168, 1, i >>
\* the netmask "24" of the sweep
SweepNetmask == 24

NoAddr == << >>

-----------------------------------------------------------------------------
(* The inputs and the environment a run is checked with *)

\* the alternative --timeout value
OtherTimeout == 5

Hostnames == { Gateway, TestIp(RangeStart) }
Interfaces == { "eth0", "wlan9" }
\* psutil.net_if_addrs(): the interfaces the OS reports
OsInterfaces == { "eth0" }
Firmwares == { << "d", "/", "f" >>, << "g" >>, << "d", "/" >> }
\* the paths for which os.path.isfile is true
RegularFiles == { << "d", "/", "f" >>, << "g" >> }
\* the paths that exist and are directories
Directories == { << "d", "/" >> }
Timeouts == { DefaultTimeout, OtherTimeout }
\* the kinds of command configure_interface runs
OsCommands == { "flush", "addr_add", "link_up", "route_add" }
\* the texts of the exceptions tftpy can raise
ErrTexts == { "Connection failed", "timed out" }
\* the retries and delay values ping_host is checked with on its own
MaxRetries == 4
MaxDelay == 2
\* the firmware paths upload_binary_using_tftp is checked with on its own
PathChars == { "a", "/" }
MaxPathLen == 3
Paths == UNION { [ 1 .. n -> PathChars ] : n \in 0 .. MaxPathLen }
\* what the operator can type at the prompt
AnswerChars == { "y", "Y", "n", " " }
MaxAnswerLen == 2

\* the interface and default route the run may start with
InitialNets ==
    { [ addrs |-> {}, up |-> FALSE, gw |-> NoAddr ],
      [ addrs |-> { << << 10, 0, 0, 7 >>, 8 >> }, up |-> TRUE,
        gw |-> << 10, 0, 0, 254 >> ] }

-----------------------------------------------------------------------------
(* Pure functions *)

\* str.strip(): leading and trailing whitespace removed
RECURSIVE LStrip(_)
LStrip(s) ==
    IF s # << >> /\ Head(s) = " " THEN LStrip(Tail(s)) ELSE s

RECURSIVE RStrip(_)
RStrip(s) ==
    IF s # << >> /\ s[Len(s)] = " " THEN RStrip(SubSeq(s, 1, Len(s) - 1)) ELSE s

Strip(s) == RStrip(LStrip(s))

\* str.lower()
LowerChar(c) ==
    CASE c = "Y" -> "y"
      [] c = "N" -> "n"
      [] OTHER -> c

Lower(s) == [ k \in 1 .. Len(s) |-> LowerChar(s[k]) ]

\* (the whole path sent as the remote file name)
BasenameWhole(p) == p

\* os.path.basename: what follows the last "/"
RECURSIVE Basename(_)
Basename(p) ==
    IF \E k \in 1 .. Len(p) : p[k] = "/"
    THEN Basename(Tail(p))
    ELSE p

\* what input() can return: the short lines over AnswerChars, and "yes"
Answers ==
    UNION { [ 1 .. n -> AnswerChars ] : n \in 0 .. MaxAnswerLen }
      \cup { << "y", "e", "s" >> }

\* the return code of an "ip" command of kind c: 0, or non-zero when rejected
Rc(c) == IF c \in osRejects THEN 1 ELSE 0

-----------------------------------------------------------------------------
(* The state after main() has parsed its arguments *)

Init ==
    /\ hostname \in Hostnames
    /\ interface \in Interfaces
    /\ firmware \in Firmwares
    /\ timeout \in Timeouts
    /\ no_ping \in BOOLEAN
    /\ osRejects \in SUBSET OsCommands
    /\ \E n \in InitialNets :
          /\ iface = [ addrs |-> n.addrs, up |-> n.up ]
          /\ route = n.gw
    /\ pc = "main_validate_interface"
    /\ pingIp = NoAddr
    /\ pingRetries = Retries
    /\ pingDelay = Delay
    /\ pingCaller = "none"
    /\ pingAttempt = 0
    /\ pingRet = FALSE
    /\ ans = << >>
    /\ typed = << >>
    /\ sweepI = RangeStart
    /\ upHost = NoAddr
    /\ upRet = FALSE
    /\ ufRet = FALSE
    /\ exitCode = -1
    /\ nUfCalls = 0
    /\ nProbe = 0
    /\ nEcho = 0
    /\ echoRcs = << >>
    /\ nPingSleep = 0
    /\ slept = 0
    /\ nPrompt = 0
    /\ nSweep = 0
    /\ nConfig = 0
    /\ cfgArgs = [ interface |-> "", ip |-> NoAddr, netmask |-> 0, gateway |-> NoAddr ]
    /\ nSettle = 0
    /\ cfgDone = << >>
    /\ lastProbe = [ h \in Hostnames \cup { Gateway } |-> "none" ]
    /\ uploads = << >>
    /\ sessions = << >>
    /\ tftpOutcome = [ raisedBy |-> "none", text |-> "" ]
    /\ log = << >>
    /\ nInfo = 0
    /\ nDebug = 0

-----------------------------------------------------------------------------
(* Logging *)

Logged(level, msg) == Append(log, [ level |-> level, msg |-> msg ])

-----------------------------------------------------------------------------
(* main(): validation *)

\* validate_interface: interface in psutil.net_if_addrs()
validate_interface(i) == i \in OsInterfaces

\* (os.path.exists in place of os.path.isfile: a directory passes)
validate_firmware_path_exists(f) == f \in RegularFiles \cup Directories

\* validate_firmware_path: os.path.isfile(firmware)
validate_firmware_path(f) == f \in RegularFiles

\* sys.exit(code)
Exit(code) ==
    /\ pc' = "exit"
    /\ exitCode' = code

\* if not validate_interface(args.interface): logger.error(...); sys.exit(1)
ValidateInterface ==
    /\ pc = "main_validate_interface"
    /\ IF ~ validate_interface(interface)
       THEN /\ log' = Logged("error", << "Interface not found", interface >>)
            /\ Exit(1)
       ELSE /\ pc' = "main_validate_firmware"
            /\ UNCHANGED << log, exitCode >>
    /\ UNCHANGED << env, iface, route, pingIp, pingRetries, pingDelay, pingCaller, pingAttempt,
                    pingRet, ans, typed, sweepI, upHost, upRet, ufRet, nUfCalls, nProbe,
                    nEcho, echoRcs, nPingSleep, slept, nPrompt, nSweep, nConfig, cfgArgs, nSettle, cfgDone,
                    lastProbe, uploads, sessions, tftpOutcome, nInfo, nDebug >>

\* if not validate_firmware_path(args.firmware, logger): sys.exit(1)
\* (validate_firmware_path logs the error itself)
ValidateFirmware ==
    /\ pc = "main_validate_firmware"
    /\ IF ~ validate_firmware_path(firmware)
       THEN /\ log' = Logged("error", << "Invalid firmware path", firmware >>)
            /\ Exit(1)
       ELSE /\ pc' = "uf_entry"
            /\ UNCHANGED << log, exitCode >>
    /\ UNCHANGED << env, iface, route, pingIp, pingRetries, pingDelay, pingCaller, pingAttempt,
                    pingRet, ans, typed, sweepI, upHost, upRet, ufRet, nUfCalls, nProbe,
                    nEcho, echoRcs, nPingSleep, slept, nPrompt, nSweep, nConfig, cfgArgs, nSettle, cfgDone,
                    lastProbe, uploads, sessions, tftpOutcome, nInfo, nDebug >>

-----------------------------------------------------------------------------
(* ping_host *)

\* the call ping_host(ip, no_ping, logger) made by caller c: retries and
\* delay take their defaults
CallPing(ip, c) ==
    /\ pc' = "ping_entry"
    /\ pingIp' = ip
    /\ pingRetries' = Retries
    /\ pingDelay' = Delay
    /\ echoRcs' = << >>
    /\ pingCaller' = c
    /\ pingAttempt' = 0
    /\ nProbe' = nProbe + 1

\* ping_host returns r to its caller
ReturnPing(r) ==
    /\ pingRet' = r
    /\ lastProbe' =
          [ lastProbe EXCEPT ![pingIp] = IF r THEN "reachable" ELSE "unreachable" ]
    /\ pc' = IF pingCaller = "direct" THEN "uf_after_ping" ELSE "sweep_after_ping"

\* (a ping_host that ignores no_ping)
BypassedNever == FALSE

\* if no_ping
Bypassed == no_ping

\* (one iteration too many)
MoreAttemptsOffByOne(n) == n <= pingRetries

\* for _ in range(retries): there is a next iteration after n of them
MoreAttempts(n) == n < pingRetries

\* if no_ping: return True; else the loop for _ in range(retries) starts
PingEntry ==
    /\ pc = "ping_entry"
    /\ IF Bypassed
       THEN ReturnPing(TRUE)
       ELSE /\ pc' = IF MoreAttempts(pingAttempt) THEN "ping_echo" ELSE "ping_exhausted"
            /\ UNCHANGED << pingRet, lastProbe >>
    /\ UNCHANGED << env, iface, route, pingIp, pingRetries, pingDelay, pingCaller, pingAttempt, ans, typed,
                    sweepI, upHost, upRet, ufRet, exitCode, nUfCalls, nProbe, nEcho, echoRcs,
                    nPingSleep, slept, nPrompt, nSweep, nConfig, cfgArgs, nSettle, cfgDone, uploads,
                    sessions, tftpOutcome, log, nInfo, nDebug >>

\* one iteration: logger.info, subprocess.run(["ping", "-c", "1", ip]), and
\* return True when its returncode is 0
PingEcho ==
    /\ pc = "ping_echo"
    /\ nInfo' = nInfo + 1
    /\ nEcho' = nEcho + 1
    /\ \E returncode \in { 0, 1 } :
          /\ echoRcs' = Append(echoRcs, returncode)
          /\ IF returncode = 0
             THEN ReturnPing(TRUE)
             ELSE /\ pc' = "ping_sleep"
                  /\ UNCHANGED << pingRet, lastProbe >>
    /\ UNCHANGED << env, iface, route, pingIp, pingRetries, pingDelay, pingCaller, pingAttempt, ans, typed,
                    sweepI, upHost, upRet, ufRet, exitCode, nUfCalls, nProbe,
                    nPingSleep, slept, nPrompt, nSweep, nConfig, cfgArgs, nSettle, cfgDone, uploads,
                    sessions, tftpOutcome, log, nDebug >>

\* time.sleep(delay), then the next iteration of the loop
PingSleep ==
    /\ pc = "ping_sleep"
    /\ nPingSleep' = nPingSleep + 1
    /\ slept' = slept + pingDelay
    /\ pingAttempt' = pingAttempt + 1
    /\ pc' = IF MoreAttempts(pingAttempt + 1) THEN "ping_echo" ELSE "ping_exhausted"
    /\ UNCHANGED << env, iface, route, pingIp, pingRetries, pingDelay, pingCaller, pingRet, ans, typed,
                    sweepI, upHost, upRet, ufRet, exitCode, nUfCalls, nProbe, nEcho, echoRcs,
                    nPrompt, nSweep, nConfig, cfgArgs, nSettle, cfgDone, lastProbe, uploads,
                    sessions, tftpOutcome, log, nInfo, nDebug >>

\* the loop is over: return False
PingExhausted ==
    /\ pc = "ping_exhausted"
    /\ ReturnPing(FALSE)
    /\ UNCHANGED << env, iface, route, pingIp, pingRetries, pingDelay, pingCaller, pingAttempt, ans, typed,
                    sweepI, upHost, upRet, ufRet, exitCode, nUfCalls, nProbe, nEcho, echoRcs,
                    nPingSleep, slept, nPrompt, nSweep, nConfig, cfgArgs, nSettle, cfgDone, uploads,
                    sessions, tftpOutcome, log, nInfo, nDebug >>

-----------------------------------------------------------------------------
(* upload_binary_using_tftp *)

\* the arguments upload_firmware and try_default_ip_range pass on
UploadArgs(h) == [ host |-> h, firmware |-> firmware, timeout |-> timeout ]

\* the call upload_binary_using_tftp(h, firmware, timeout, logger)
CallUpload(h) ==
    /\ pc' = "upload"
    /\ upHost' = h
    /\ uploads' = Append(uploads, UploadArgs(h))

\* what tftpy can do: raise in TftpClient(...), raise in client.upload(...),
\* or transfer the file
TftpOutcomes ==
    { [ raisedBy |-> "none", text |-> "" ] }
      \cup [ raisedBy : { "TftpClient", "upload" }, text : ErrTexts ]

\* client = tftpy.TftpClient(hostname, 69)
ClientCall(h) == [ op |-> "TftpClient", host |-> h, port |-> TftpPort ]

\* client.upload(os.path.basename(firmware), firmware, timeout=timeout)
TransferCall(f, t) ==
    [ op |-> "upload", remote |-> Basename(f), local |-> f, timeout |-> t ]

\* (only an error of client.upload taken as a failure)
UploadResultClientErrorLost(o) == o.raisedBy # "upload"

\* return True at the end of the try block, return False in the except block
UploadResult(o) == o.raisedBy = "none"

\* the whole function, lines 223-231
UploadBinaryUsingTftp ==
    /\ pc = "upload"
    /\ \E o \in TftpOutcomes :
          /\ tftpOutcome' = o
          /\ sessions' =
                IF o.raisedBy = "TftpClient"
                THEN Append(sessions, ClientCall(upHost))
                ELSE sessions \o << ClientCall(upHost),
                                    TransferCall(firmware, timeout) >>
          /\ upRet' = UploadResult(o)
          /\ IF o.raisedBy = "none"
             THEN /\ nInfo' = nInfo + 2
                  /\ UNCHANGED log
             ELSE /\ nInfo' = nInfo + 1
                  /\ log' = Logged("error", << "TFTP upload failed", o.text >>)
    /\ pc' = "upload_return"
    /\ UNCHANGED << env, iface, route, pingIp, pingRetries, pingDelay, pingCaller, pingAttempt,
                    pingRet, ans, typed, sweepI, upHost, ufRet, exitCode, nUfCalls,
                    nProbe, nEcho, echoRcs, nPingSleep, slept, nPrompt, nSweep, nConfig,
                    cfgArgs, nSettle, cfgDone, lastProbe, uploads, nDebug >>

\* (a failed upload of the direct attempt going on to the prompt)
ReturnUploadFallsBack ==
    /\ pc = "upload_return"
    /\ IF ~ upRet /\ nSweep = 0
       THEN /\ pc' = "uf_prompt"
            /\ UNCHANGED ufRet
       ELSE /\ ufRet' = upRet
            /\ pc' = "main_result"
    /\ UNCHANGED << env, iface, route, pingIp, pingRetries, pingDelay, pingCaller, pingAttempt,
                    pingRet, ans, typed, sweepI, upHost, upRet, exitCode, nUfCalls,
                    nProbe, nEcho, echoRcs, nPingSleep, slept, nPrompt, nSweep, nConfig,
                    cfgArgs, nSettle, cfgDone, lastProbe, uploads, sessions, tftpOutcome,
                    log, nInfo, nDebug >>

\* (a sweep that goes on to the next candidate when the upload failed)
ReturnUploadRetry ==
    /\ pc = "upload_return"
    /\ IF ~ upRet /\ nSweep > 0
       THEN /\ sweepI' = sweepI + 1
            /\ pc' = "sweep_loop"
            /\ UNCHANGED ufRet
       ELSE /\ ufRet' = upRet
            /\ pc' = "main_result"
            /\ UNCHANGED sweepI
    /\ UNCHANGED << env, iface, route, pingIp, pingRetries, pingDelay, pingCaller, pingAttempt,
                    pingRet, ans, typed, upHost, upRet, exitCode, nUfCalls,
                    nProbe, nEcho, echoRcs, nPingSleep, slept, nPrompt, nSweep, nConfig,
                    cfgArgs, nSettle, cfgDone, lastProbe, uploads, sessions, tftpOutcome,
                    log, nInfo, nDebug >>

\* return upload_binary_using_tftp(...): upload_firmware returns the
\* uploader's value (line 282), and so does try_default_ip_range (line 201),
\* whose value upload_firmware returns (line 289)
ReturnUpload ==
    /\ pc = "upload_return"
    /\ ufRet' = upRet
    /\ pc' = "main_result"
    /\ UNCHANGED << env, iface, route, pingIp, pingRetries, pingDelay, pingCaller, pingAttempt,
                    pingRet, ans, typed, sweepI, upHost, upRet, exitCode, nUfCalls,
                    nProbe, nEcho, echoRcs, nPingSleep, slept, nPrompt, nSweep, nConfig,
                    cfgArgs, nSettle, cfgDone, lastProbe, uploads, sessions, tftpOutcome,
                    log, nInfo, nDebug >>

-----------------------------------------------------------------------------
(* upload_firmware *)

\* lines 276-280: get_ip_info, get_default_gateway (both only read),
\* print_connection_info (four logger.info), then ping_host(hostname, ...)
\* (get_ip_info running "ip addr flush" where it runs "ip addr show")
UfEntryFlushes ==
    /\ pc = "uf_entry"
    /\ nUfCalls' = nUfCalls + 1
    /\ nInfo' = nInfo + 4
    /\ iface' = [ iface EXCEPT !.addrs = {} ]
    /\ CallPing(hostname, "direct")
    /\ UNCHANGED << env, route, pingRet, ans, typed, sweepI, upHost, upRet, ufRet,
                    exitCode, nEcho, nPingSleep, slept, nPrompt, nSweep, nConfig,
                    cfgArgs, nSettle, cfgDone, lastProbe, uploads, sessions, tftpOutcome,
                    log, nDebug >>

UfEntry ==
    /\ pc = "uf_entry"
    /\ nUfCalls' = nUfCalls + 1
    /\ nInfo' = nInfo + 4
    /\ CallPing(hostname, "direct")
    /\ UNCHANGED << env, iface, route, pingRet, ans, typed, sweepI, upHost, upRet, ufRet,
                    exitCode, nEcho, nPingSleep, slept, nPrompt, nSweep, nConfig,
                    cfgArgs, nSettle, cfgDone, lastProbe, uploads, sessions, tftpOutcome,
                    log, nDebug >>

\* (the direct attempt uploading to the default address)
DirectUploadHostGateway == Gateway

\* the host the direct attempt uploads to (line 282)
DirectUploadHost == hostname

\* (the direct attempt uploading whatever the probe said)
DirectUploadsAlways == TRUE

\* whether the direct attempt uploads (line 280)
DirectUploads == pingRet

\* lines 280-284: upload when the probe succeeded, else warn and prompt
UfAfterPing ==
    /\ pc = "uf_after_ping"
    /\ IF DirectUploads
       THEN /\ nInfo' = nInfo + 1
            /\ CallUpload(DirectUploadHost)
            /\ UNCHANGED log
       ELSE /\ log' = Logged("warning", << "Router not reachable with current config" >>)
            /\ pc' = "uf_prompt"
            /\ UNCHANGED << nInfo, upHost, uploads >>
    /\ UNCHANGED << env, iface, route, pingIp, pingRetries, pingDelay, pingCaller, pingAttempt,
                    pingRet, ans, typed, sweepI, upRet, ufRet, exitCode, nUfCalls, nProbe,
                    nEcho, echoRcs, nPingSleep, slept, nPrompt, nSweep, nConfig, cfgArgs,
                    nSettle, cfgDone, lastProbe, sessions, tftpOutcome, nDebug >>

\* (an answer that is stripped and not lowered)
NormaliseNoLower(raw) == Strip(raw)

\* input(...).strip().lower()
Normalise(raw) == Lower(Strip(raw))

\* (every answer but "n" taken as consent)
ConsentsUnlessNo(a) == a # << "n" >>

\* ans != "y" is the refusal
Consents(a) == a = << "y" >>

\* line 285, input(...): the prompt is shown and the operator types a line
UfPrompt ==
    /\ pc = "uf_prompt"
    /\ \E raw \in Answers : typed' = raw
    /\ pc' = "uf_answer"
    /\ UNCHANGED << env, iface, route, pingIp, pingRetries, pingDelay, pingCaller, pingAttempt,
                    pingRet, ans, sweepI, upHost, upRet, ufRet, exitCode, nUfCalls, nProbe,
                    nEcho, echoRcs, nPingSleep, slept, nPrompt, nSweep, nConfig, cfgArgs,
                    nSettle, cfgDone, lastProbe, uploads, sessions, tftpOutcome, log,
                    nInfo, nDebug >>

\* lines 285-289: input() returns the line; it is stripped and lowered; then
\* return False, or call try_default_ip_range
UfAnswer ==
    /\ pc = "uf_answer"
    /\ nPrompt' = nPrompt + 1
    /\ ans' = Normalise(typed)
    /\ typed' = << >>
    /\ IF ~ Consents(ans')
       THEN /\ ufRet' = FALSE
            /\ pc' = "main_result"
            /\ UNCHANGED << nSweep, sweepI >>
       ELSE /\ nSweep' = nSweep + 1
            /\ sweepI' = RangeStart
            /\ pc' = "sweep_loop"
            /\ UNCHANGED ufRet
    /\ UNCHANGED << env, iface, route, pingIp, pingRetries, pingDelay, pingCaller, pingAttempt,
                    pingRet, upHost, upRet, exitCode, nUfCalls, nProbe, nEcho, echoRcs,
                    nPingSleep, slept, nConfig, cfgArgs, nSettle, cfgDone,
                    lastProbe, uploads, sessions, tftpOutcome, log, nInfo, nDebug >>

-----------------------------------------------------------------------------
(* configure_interface: four "ip" commands, their return codes ignored *)

\* (the sweep going on to its pause without configuring the interface)
CallConfigureSkipped(ip, netmask, gateway) ==
    /\ pc' = "sweep_sleep"
    /\ UNCHANGED << cfgArgs, cfgDone, nConfig, nDebug >>

\* the call configure_interface(interface, ip, netmask, gateway, logger),
\* with its logger.debug (line 166)
CallConfigure(ip, netmask, gateway) ==
    /\ pc' = "cfg_flush"
    /\ cfgArgs' = [ interface |-> interface, ip |-> ip, netmask |-> netmask,
                    gateway |-> gateway ]
    /\ cfgDone' = << >>
    /\ nConfig' = nConfig + 1
    /\ nDebug' = nDebug + 1

\* subprocess.run(["ip", ...]) of a command of kind c, with the interface, the
\* address and the prefix length its argument list holds ("", NoAddr and 0
\* where it holds none): the CompletedProcess is dropped
RunIp(c, dev, addr, mask) ==
    cfgDone' = Append(cfgDone, [ cmd |-> c, dev |-> dev, addr |-> addr,
                                 mask |-> mask, rc |-> Rc(c) ])

\* (the default route set via the address just assigned)
RouteViaOwnIp == cfgArgs.ip

\* the address after "via" (line 170)
RouteVia == cfgArgs.gateway

\* ip addr flush dev <interface>
CfgFlush ==
    /\ pc = "cfg_flush"
    /\ RunIp("flush", cfgArgs.interface, NoAddr, 0)
    /\ iface' = IF Rc("flush") = 0 THEN [ iface EXCEPT !.addrs = {} ] ELSE iface
    /\ pc' = "cfg_addr_add"
    /\ UNCHANGED << env, route, pingIp, pingRetries, pingDelay, pingCaller, pingAttempt, pingRet, ans, typed,
                    sweepI, upHost, upRet, ufRet, exitCode, nUfCalls, nProbe, nEcho, echoRcs,
                    nPingSleep, slept, nPrompt, nSweep, nConfig, cfgArgs, nSettle,
                    lastProbe, uploads, sessions, tftpOutcome, log, nInfo, nDebug >>

\* ip addr add <ip>/<netmask> dev <interface>
CfgAddrAdd ==
    /\ pc = "cfg_addr_add"
    /\ RunIp("addr_add", cfgArgs.interface, cfgArgs.ip, cfgArgs.netmask)
    /\ iface' = IF Rc("addr_add") = 0
                THEN [ iface EXCEPT !.addrs =
                          @ \cup { << cfgArgs.ip, cfgArgs.netmask >> } ]
                ELSE iface
    /\ pc' = "cfg_link_up"
    /\ UNCHANGED << env, route, pingIp, pingRetries, pingDelay, pingCaller, pingAttempt, pingRet, ans, typed,
                    sweepI, upHost, upRet, ufRet, exitCode, nUfCalls, nProbe, nEcho, echoRcs,
                    nPingSleep, slept, nPrompt, nSweep, nConfig, cfgArgs, nSettle,
                    lastProbe, uploads, sessions, tftpOutcome, log, nInfo, nDebug >>

\* ip link set <interface> up
CfgLinkUp ==
    /\ pc = "cfg_link_up"
    /\ RunIp("link_up", cfgArgs.interface, NoAddr, 0)
    /\ iface' = IF Rc("link_up") = 0 THEN [ iface EXCEPT !.up = TRUE ] ELSE iface
    /\ pc' = "cfg_route_add"
    /\ UNCHANGED << env, route, pingIp, pingRetries, pingDelay, pingCaller, pingAttempt, pingRet, ans, typed,
                    sweepI, upHost, upRet, ufRet, exitCode, nUfCalls, nProbe, nEcho, echoRcs,
                    nPingSleep, slept, nPrompt, nSweep, nConfig, cfgArgs, nSettle,
                    lastProbe, uploads, sessions, tftpOutcome, log, nInfo, nDebug >>

\* ip route add default via <gateway>; then configure_interface returns None
CfgRouteAdd ==
    /\ pc = "cfg_route_add"
    /\ RunIp("route_add", "", RouteVia, 0)
    /\ route' = IF Rc("route_add") = 0 THEN RouteVia ELSE route
    /\ pc' = "sweep_sleep"
    /\ UNCHANGED << env, iface, pingIp, pingRetries, pingDelay, pingCaller, pingAttempt, pingRet, ans, typed,
                    sweepI, upHost, upRet, ufRet, exitCode, nUfCalls, nProbe, nEcho, echoRcs,
                    nPingSleep, slept, nPrompt, nSweep, nConfig, cfgArgs, nSettle,
                    lastProbe, uploads, sessions, tftpOutcome, log, nInfo, nDebug >>

-----------------------------------------------------------------------------
(* try_default_ip_range *)

\* (a sweep with no last candidate)
InRangeNoEnd(i) == RangeStart <= i

\* for i in range(2, 26): the loop goes on while i is in the range
InRange(i) == RangeStart <= i /\ i < RangeStop

\* lines 196-198 and 202: configure the next candidate, or return False
SweepLoop ==
    /\ pc = "sweep_loop"
    /\ IF InRange(sweepI)
       THEN /\ CallConfigure(TestIp(sweepI), SweepNetmask, Gateway)
            /\ UNCHANGED ufRet
       ELSE /\ ufRet' = FALSE
            /\ pc' = "main_result"
            /\ UNCHANGED << nConfig, cfgArgs, cfgDone, nDebug >>
    /\ UNCHANGED << env, iface, route, pingIp, pingRetries, pingDelay, pingCaller, pingAttempt,
                    pingRet, ans, typed, sweepI, upHost, upRet, exitCode, nUfCalls, nProbe,
                    nEcho, echoRcs, nPingSleep, slept, nPrompt, nSweep, nSettle, lastProbe,
                    uploads, sessions, tftpOutcome, log, nInfo >>

\* (the sweep probing the candidate address it has just assigned)
SweepProbeHostCandidate == cfgArgs.ip

\* the address the sweep probes (line 200)
SweepProbeHost == Gateway

\* lines 199-200: time.sleep(2), then ping_host("192.168.1.1", ...)
SweepSleep ==
    /\ pc = "sweep_sleep"
    /\ nSettle' = nSettle + 1
    /\ slept' = slept + SettleDelay
    /\ CallPing(SweepProbeHost, "sweep")
    /\ UNCHANGED << env, iface, route, pingRet, ans, typed, sweepI, upHost, upRet, ufRet,
                    exitCode, nUfCalls, nEcho, nPingSleep, nPrompt, nSweep,
                    nConfig, cfgArgs, cfgDone, lastProbe, uploads, sessions, tftpOutcome,
                    log, nInfo, nDebug >>

\* (the sweep uploading to the candidate address it has just assigned)
SweepUploadHostCandidate == cfgArgs.ip

\* the host the sweep uploads to (line 201)
SweepUploadHost == Gateway

\* whether the sweep uploads for the candidate just probed (line 200)
SweepUploads == pingRet

\* lines 200-201: upload when the probe succeeded, else the next candidate
SweepAfterPing ==
    /\ pc = "sweep_after_ping"
    /\ IF SweepUploads
       THEN /\ CallUpload(SweepUploadHost)
            /\ UNCHANGED sweepI
       ELSE /\ sweepI' = sweepI + 1
            /\ pc' = "sweep_loop"
            /\ UNCHANGED << upHost, uploads >>
    /\ UNCHANGED << env, iface, route, pingIp, pingRetries, pingDelay, pingCaller, pingAttempt,
                    pingRet, ans, typed, upRet, ufRet, exitCode, nUfCalls, nProbe, nEcho, echoRcs,
                    nPingSleep, slept, nPrompt, nSweep, nConfig, cfgArgs, nSettle,
                    cfgDone, lastProbe, sessions, tftpOutcome, log, nInfo, nDebug >>

-----------------------------------------------------------------------------
(* main(): the result *)

\* (main without its sys.exit(1))
ExitCodeForAlwaysZero(ok) == 0

\* the exit code for the value upload_firmware returned (lines 326-337)
ExitCodeFor(ok) == IF ok THEN 0 ELSE 1

\* if not upload_firmware(...): logger.error(...); sys.exit(1)
\* else logger.info(...) and main returns
MainResult ==
    /\ pc = "main_result"
    /\ IF ~ ufRet
       THEN /\ log' = Logged("error", << "Firmware upload failed" >>)
            /\ UNCHANGED nInfo
       ELSE /\ nInfo' = nInfo + 1
            /\ UNCHANGED log
    /\ Exit(ExitCodeFor(ufRet))
    /\ UNCHANGED << env, iface, route, pingIp, pingRetries, pingDelay, pingCaller, pingAttempt,
                    pingRet, ans, typed, sweepI, upHost, upRet, ufRet, nUfCalls, nProbe,
                    nEcho, echoRcs, nPingSleep, slept, nPrompt, nSweep, nConfig, cfgArgs,
                    nSettle, cfgDone, lastProbe, uploads, sessions, tftpOutcome, nDebug >>

-----------------------------------------------------------------------------

Next ==
    \/ ValidateInterface
    \/ ValidateFirmware
    \/ UfEntry
    \/ PingEntry
    \/ PingEcho
    \/ PingSleep
    \/ PingExhausted
    \/ UfAfterPing
    \/ UfPrompt
    \/ UfAnswer
    \/ SweepLoop
    \/ CfgFlush
    \/ CfgAddrAdd
    \/ CfgLinkUp
    \/ CfgRouteAdd
    \/ SweepSleep
    \/ SweepAfterPing
    \/ UploadBinaryUsingTftp
    \/ ReturnUpload
    \/ MainResult

Spec == Init /\ [][Next]_vars

\* every call returns and the operator answers the prompt: the step the
\* program is at is taken
SpecFair == Spec /\ WF_vars(Next)

-----------------------------------------------------------------------------
(* ping_host on its own: one call, with any address, retries, delay and     *)
(* no_ping                                                                  *)

InitPing ==
    /\ hostname \in Hostnames
    /\ interface \in OsInterfaces
    /\ firmware = << "g" >>
    /\ timeout = DefaultTimeout
    /\ no_ping \in BOOLEAN
    /\ osRejects = {}
    /\ iface = [ addrs |-> {}, up |-> FALSE ]
    /\ route = NoAddr
    /\ pc = "ping_entry"
    /\ pingIp = hostname
    /\ pingRetries \in 0 .. MaxRetries
    /\ pingDelay \in 0 .. MaxDelay
    /\ pingCaller = "direct"
    /\ pingAttempt = 0
    /\ pingRet = FALSE
    /\ ans = << >>
    /\ typed = << >>
    /\ sweepI = RangeStart
    /\ upHost = NoAddr
    /\ upRet = FALSE
    /\ ufRet = FALSE
    /\ exitCode = -1
    /\ nUfCalls = 1
    /\ nProbe = 1
    /\ nEcho = 0
    /\ echoRcs = << >>
    /\ nPingSleep = 0
    /\ slept = 0
    /\ nPrompt = 0
    /\ nSweep = 0
    /\ nConfig = 0
    /\ cfgArgs = [ interface |-> "", ip |-> NoAddr, netmask |-> 0, gateway |-> NoAddr ]
    /\ nSettle = 0
    /\ cfgDone = << >>
    /\ lastProbe = [ h \in Hostnames \cup { Gateway } |-> "none" ]
    /\ uploads = << >>
    /\ sessions = << >>
    /\ tftpOutcome = [ raisedBy |-> "none", text |-> "" ]
    /\ log = << >>
    /\ nInfo = 0
    /\ nDebug = 0

NextPing ==
    \/ PingEntry
    \/ PingEcho
    \/ PingSleep
    \/ PingExhausted

SpecPing == InitPing /\ [][NextPing]_vars

-----------------------------------------------------------------------------
(* upload_binary_using_tftp on its own: one call, with any host, path and   *)
(* timeout                                                                  *)

InitUpload ==
    /\ hostname \in Hostnames
    /\ interface \in OsInterfaces
    /\ firmware \in Paths
    /\ timeout \in Timeouts
    /\ no_ping = FALSE
    /\ osRejects = {}
    /\ iface = [ addrs |-> {}, up |-> FALSE ]
    /\ route = NoAddr
    /\ pc = "upload"
    /\ pingIp = NoAddr
    /\ pingRetries = Retries
    /\ pingDelay = Delay
    /\ pingCaller = "none"
    /\ pingAttempt = 0
    /\ pingRet = FALSE
    /\ ans = << >>
    /\ typed = << >>
    /\ sweepI = RangeStart
    /\ upHost = hostname
    /\ upRet = FALSE
    /\ ufRet = FALSE
    /\ exitCode = -1
    /\ nUfCalls = 0
    /\ nProbe = 0
    /\ nEcho = 0
    /\ echoRcs = << >>
    /\ nPingSleep = 0
    /\ slept = 0
    /\ nPrompt = 0
    /\ nSweep = 0
    /\ nConfig = 0
    /\ cfgArgs = [ interface |-> "", ip |-> NoAddr, netmask |-> 0, gateway |-> NoAddr ]
    /\ nSettle = 0
    /\ cfgDone = << >>
    /\ lastProbe = [ h \in Hostnames \cup { Gateway } |-> "none" ]
    /\ uploads = << UploadArgs(hostname) >>
    /\ sessions = << >>
    /\ tftpOutcome = [ raisedBy |-> "none", text |-> "" ]
    /\ log = << >>
    /\ nInfo = 0
    /\ nDebug = 0

NextUpload == UploadBinaryUsingTftp

SpecUpload == InitUpload /\ [][NextUpload]_vars

-----------------------------------------------------------------------------
(* Properties *)

PingPcs == { "ping_entry", "ping_echo", "ping_sleep", "ping_exhausted" }

\* the result of the last probe of address h, "none" when it was never probed
ProbeResult(h) == IF h \in DOMAIN lastProbe THEN lastProbe[h] ELSE "none"

\* the TftpClient constructions made so far
ClientCalls == SelectSeq(sessions, LAMBDA c : c.op = "TftpClient")

\* the one call upload_binary_using_tftp(h, firmware, timeout, logger)
OneUpload(h) == << [ host |-> h, firmware |-> firmware, timeout |-> timeout ] >>

\* C1: with probing not bypassed, every host the uploader was invoked against
\* is a host whose last probe returned reachable; none is a host whose probe
\* returned unreachable.
C1_UploadOnlyAfterReachableProbe ==
    ~ no_ping =>
        /\ \A k \in 1 .. Len(uploads) :
              ProbeResult(uploads[k].host) = "reachable"
        /\ \A k \in 1 .. Len(ClientCalls) :
              ProbeResult(ClientCalls[k].host) = "reachable"

\* the run ended after an upload to 192.168.1.1, which the direct probe had
\* found unreachable and a probe of the sweep then found reachable
C1_Witness ==
    /\ ~ no_ping
    /\ pc = "exit"
    /\ hostname = Gateway
    /\ nSweep = 1
    /\ Len(uploads) = 1

\* C2, as stated: whenever an upload has been attempted, an interface
\* reconfiguration preceded it, on the direct path too.
C2_ConfigureBeforeEveryUpload ==
    uploads # << >> => nConfig >= 1

\* C2, amended: an upload made by the fallback sweep is preceded by a complete
\* configure_interface call (all four commands) of that sweep; an upload of
\* the direct attempt is preceded by none.
C2_ConfigureBeforeSweepUpload ==
    uploads # << >> =>
        IF nSweep = 0
        THEN nConfig = 0 /\ cfgDone = << >>
        ELSE nConfig >= 1 /\ Len(cfgDone) = 4

\* the sweep has called the uploader
C2_Witness ==
    /\ uploads # << >>
    /\ nSweep = 1
    /\ pc = "upload"

\* the direct probe of the caller's host has returned reachable
DirectReachable ==
    /\ nUfCalls = 1
    /\ nProbe = 1
    /\ pingRet
    /\ pc \notin PingPcs

\* C3: when the direct probe reports reachable, the uploader is invoked exactly
\* once with the original host, firmware path and timeout, there is no prompt
\* and no interface configuration, and the uploader's result, success or
\* failure, is the outcome of the run.
C3_DirectReachable ==
    DirectReachable =>
        /\ nPrompt = 0
        /\ nSweep = 0
        /\ nConfig = 0
        /\ cfgDone = << >>
        /\ pc \in { "uf_after_ping", "upload", "upload_return", "main_result",
                    "exit" }
        /\ uploads = IF pc = "uf_after_ping" THEN << >> ELSE OneUpload(hostname)
        /\ Len(ClientCalls) <= 1
        /\ pc \in { "main_result", "exit" } => ufRet = upRet
        /\ pc = "exit" => exitCode = IF upRet THEN 0 ELSE 1

\* the run ended with the failure of the one upload of the direct attempt
C3_Witness ==
    /\ DirectReachable
    /\ ~ no_ping
    /\ pc = "exit"
    /\ ~ upRet
    /\ Len(uploads) = 1

\* C4: when the direct probe reports unreachable and the operator's answer is
\* not the affirmative one, upload_firmware returns failure, and the sweep, the
\* configurator and the uploader are never invoked.
C4_DeclinedConsent ==
    (nPrompt >= 1 /\ ans # << "y" >>) =>
        /\ nPrompt = 1
        /\ ProbeResult(hostname) = "unreachable"
        /\ nSweep = 0
        /\ nConfig = 0
        /\ cfgDone = << >>
        /\ uploads = << >>
        /\ sessions = << >>
        /\ pc \in { "main_result", "exit" }
        /\ ~ ufRet
        /\ pc = "exit" => exitCode = 1

\* the run ended after an answer that was not the affirmative one
C4_Witness ==
    /\ nPrompt = 1
    /\ ans = << >>
    /\ pc = "exit"

\* try_default_ip_range has returned
SweepReturned ==
    /\ nSweep = 1
    /\ pc \in { "main_result", "exit" }

\* C5: when the sweep runs and the gateway probe fails for every candidate, the
\* configurator is invoked exactly 24 times, the uploader never, and the sweep
\* returns failure.
C5_ExhaustedSweep ==
    (SweepReturned /\ ProbeResult(Gateway) # "reachable") =>
        /\ nConfig = 24
        /\ nSettle = 24
        /\ nProbe = 25
        /\ cfgArgs.ip = << 192, 168, 1, 25 >>
        /\ uploads = << >>
        /\ sessions = << >>
        /\ ~ ufRet

\* the run ended after a sweep none of whose probes succeeded
C5_Witness ==
    /\ SweepReturned
    /\ ProbeResult(Gateway) = "unreachable"
    /\ pc = "exit"
    /\ nConfig = 24

\* a probe of the sweep has returned reachable
SweepProbeOk ==
    /\ nSweep = 1
    /\ pingCaller = "sweep"
    /\ pingRet
    /\ pc \notin PingPcs

\* C6: when the N-th candidate is the first whose gateway probe succeeds, the
\* configurator has been invoked exactly N times (the last time for the N-th
\* candidate), the uploader is invoked exactly once, against 192.168.1.1, no
\* further candidate is configured or probed, and the sweep returns the
\* uploader's result, failure included.
C6_FirstReachableCandidate ==
    SweepProbeOk =>
        LET N == nProbe - 1
        IN  /\ N \in 1 .. 24
            /\ nConfig = N
            /\ nSettle = N
            /\ cfgArgs.ip = << 192, 168, 1, N + 1 >>
            /\ pc \in { "sweep_after_ping", "upload", "upload_return",
                        "main_result", "exit" }
            /\ uploads = IF pc = "sweep_after_ping"
                         THEN << >>
                         ELSE OneUpload(<< 192, 168, 1, 1 >>)
            /\ Len(ClientCalls) <= 1
            /\ pc \in { "main_result", "exit" } => ufRet = upRet

\* the run ended with a failed upload after the third candidate's probe
\* succeeded, the caller's host being another address than 192.168.1.1
C6_Witness ==
    /\ SweepProbeOk
    /\ pc = "exit"
    /\ nProbe - 1 = 3
    /\ hostname # Gateway
    /\ ~ upRet

\* C7: in a run of upload_firmware the uploader is invoked at most once; after
\* an upload there is no further upload, whatever its result.
C7_AtMostOneUpload ==
    /\ Len(uploads) <= 1
    /\ Len(ClientCalls) <= 1
    /\ uploads # << >> => pc \in { "upload", "upload_return", "main_result", "exit" }

\* the run ended with a failed upload of the sweep, candidates being left
C7_Witness ==
    /\ pc = "exit"
    /\ Len(uploads) = 1
    /\ ~ upRet
    /\ nSweep = 1
    /\ nConfig < 24

\* C8: if the interface is not one the OS reports, or the firmware path is not
\* an existing regular file, main exits with code 1 and upload_firmware, the
\* probe, the configurator and the uploader are never invoked.
C8_ValidationFailure ==
    (interface \notin OsInterfaces \/ firmware \notin RegularFiles) =>
        /\ nUfCalls = 0
        /\ nProbe = 0
        /\ nEcho = 0
        /\ nPrompt = 0
        /\ nConfig = 0
        /\ cfgDone = << >>
        /\ uploads = << >>
        /\ sessions = << >>
        /\ pc \in { "main_validate_interface", "main_validate_firmware", "exit" }
        /\ pc = "main_validate_firmware" => interface \in OsInterfaces
        /\ pc = "exit" => exitCode = 1

\* the run ended on a firmware path that is a directory
C8_Witness ==
    /\ pc = "exit"
    /\ interface \in OsInterfaces
    /\ firmware \in Directories

\* C9: the exit code is 0 if and only if both validations pass and
\* upload_firmware returns success; a validation failure, a declined consent,
\* an exhausted sweep and a failed upload all end with exit code 1.
C9_ExitCode ==
    pc = "exit" =>
        /\ exitCode \in { 0, 1 }
        /\ exitCode = 0 <=>
              /\ interface \in OsInterfaces
              /\ firmware \in RegularFiles
              /\ nUfCalls = 1
              /\ ufRet
        /\ (nPrompt = 1 /\ ans # << "y" >>) => exitCode = 1
        /\ (nSweep = 1 /\ uploads = << >>) => exitCode = 1
        /\ (uploads # << >> /\ ~ upRet) => exitCode = 1

\* the run ended with exit code 0 after an upload of the sweep
C9_Witness ==
    /\ pc = "exit"
    /\ exitCode = 0
    /\ nSweep = 1

\* the OS has rejected a command of the current configure_interface call
ConfigFailed == \E k \in 1 .. Len(cfgDone) : cfgDone[k].rc # 0

\* C10: when a candidate's interface configuration fails, the sweep neither
\* probes nor uploads for that candidate; it goes on to the next one.
C10_FailedConfigSkipsCandidate ==
    ConfigFailed =>
        /\ pc \notin PingPcs \cup { "sweep_after_ping", "upload", "upload_return" }
        /\ uploads = << >>

\* upload_binary_using_tftp has returned
UploadReturned ==
    /\ uploads # << >>
    /\ pc \in { "upload_return", "main_result", "exit" }

\* the "TFTP upload failed" entries of the log
UploadFailures ==
    SelectSeq(log, LAMBDA e : e.msg[1] = "TFTP upload failed")

\* C11: upload_binary_using_tftp returns success if and only if tftpy raised
\* nothing; when tftpy raised, in the client's construction or in the upload,
\* the function returns failure to its caller and the text of the error is in
\* the log at error severity.
C11_UploadResult ==
    UploadReturned =>
        /\ upRet <=> tftpOutcome.raisedBy = "none"
        /\ UploadFailures =
              IF tftpOutcome.raisedBy = "none"
              THEN << >>
              ELSE << [ level |-> "error",
                        msg |-> << "TFTP upload failed", tftpOutcome.text >> ] >>

\* the function has returned after TftpClient(...) raised "timed out"
C11_Witness ==
    /\ UploadReturned
    /\ tftpOutcome = [ raisedBy |-> "TftpClient", text |-> "timed out" ]
    /\ ~ upRet

\* ping_host has returned (in SpecPing, to the position after the direct probe)
PingReturned == pc \in { "uf_after_ping", "sweep_after_ping" }

\* C12: with the bypass flag set, ping_host returns true for every address,
\* retries and delay, without running an echo and without sleeping.
C12_Bypass ==
    no_ping =>
        /\ nEcho = 0
        /\ echoRcs = << >>
        /\ nPingSleep = 0
        /\ slept = 0
        /\ pc \in { "ping_entry", "uf_after_ping" }
        /\ PingReturned => pingRet

\* the bypassed call has returned, its retries being 0
C12_Witness ==
    /\ no_ping
    /\ PingReturned
    /\ pingRet
    /\ pingRetries = 0

\* C13: with the bypass flag unset, ping_host runs one echo per attempt and at
\* most retries echoes; no echo follows a successful one; it returns true
\* exactly when its last echo succeeded, and false only after exactly retries
\* echoes, all failed.
C13_EchoesAndResult ==
    ~ no_ping =>
        /\ nEcho = Len(echoRcs)
        /\ Len(echoRcs) <= pingRetries
        /\ \A k \in 1 .. Len(echoRcs) - 1 : echoRcs[k] # 0
        /\ PingReturned =>
              /\ pingRet <=> (echoRcs # << >> /\ echoRcs[Len(echoRcs)] = 0)
              /\ ~ pingRet => Len(echoRcs) = pingRetries

\* the call has returned true on its second echo, a third being allowed
C13_Witness ==
    /\ ~ no_ping
    /\ PingReturned
    /\ pingRet
    /\ echoRcs = << 1, 0 >>
    /\ pingRetries = 3

\* configure_interface is running
CfgPcs == { "cfg_flush", "cfg_addr_add", "cfg_link_up", "cfg_route_add" }

\* the commands of the current call, without their return codes
CfgIssued ==
    [ k \in 1 .. Len(cfgDone) |->
        [ cmd |-> cfgDone[k].cmd, dev |-> cfgDone[k].dev,
          addr |-> cfgDone[k].addr, mask |-> cfgDone[k].mask ] ]

\* the four commands a call with the arguments a issues
CfgExpected(a) ==
    << [ cmd |-> "flush", dev |-> a.interface, addr |-> NoAddr, mask |-> 0 ],
       [ cmd |-> "addr_add", dev |-> a.interface, addr |-> a.ip, mask |-> a.netmask ],
       [ cmd |-> "link_up", dev |-> a.interface, addr |-> NoAddr, mask |-> 0 ],
       [ cmd |-> "route_add", dev |-> "", addr |-> a.gateway, mask |-> 0 ] >>

\* C14: every call of configure_interface issues four commands in this order:
\* flush the addresses of the interface, add ip/netmask to the interface, set
\* the link up, add the default route via the gateway; while the call runs
\* the commands issued are the first ones of that list, once it has returned
\* they are the whole list.
C14_FourCommandsInOrder ==
    nConfig >= 1 =>
        /\ Len(cfgDone) <= 4
        /\ CfgIssued = SubSeq(CfgExpected(cfgArgs), 1, Len(cfgDone))
        /\ pc \notin CfgPcs => Len(cfgDone) = 4
        /\ pc = "cfg_flush" => Len(cfgDone) = 0
        /\ pc = "cfg_addr_add" => Len(cfgDone) = 1
        /\ pc = "cfg_link_up" => Len(cfgDone) = 2
        /\ pc = "cfg_route_add" => Len(cfgDone) = 3

\* the second call of the sweep has returned, its route added via 192.168.1.1
C14_Witness ==
    /\ pc = "sweep_sleep"
    /\ nConfig = 2
    /\ cfgArgs.ip = << 192, 168, 1, 3 >>
    /\ cfgDone[4].cmd = "route_add"
    /\ cfgDone[4].addr = << 192, 168, 1, 1 >>

\* C15: once configure_interface has returned, whatever the interface state
\* before the call, the interface holds exactly the given address/netmask, its
\* link is up and the default route goes via the given gateway.
C15_IdempotentReset ==
    (nConfig >= 1 /\ pc \notin CfgPcs) =>
        /\ iface = [ addrs |-> { << cfgArgs.ip, cfgArgs.netmask >> }, up |-> TRUE ]
        /\ route = cfgArgs.gateway

\* C16: once upload_binary_using_tftp has returned, its session was opened to
\* the target host on port 69, and the transfer, when the session opened, had
\* the full firmware path as local source, the timeout it was given, and as
\* remote name the part of the path after its last "/" (the whole path when
\* it has none).
C16_UploadSession ==
    UploadReturned =>
        /\ Len(sessions) = IF tftpOutcome.raisedBy = "TftpClient" THEN 1 ELSE 2
        /\ sessions[1] = [ op |-> "TftpClient", host |-> upHost, port |-> 69 ]
        /\ Len(sessions) = 2 =>
              LET t == sessions[2]
                  n == Len(firmware) - Len(t.remote)
              IN  /\ t.op = "upload"
                  /\ t.local = firmware
                  /\ t.timeout = timeout
                  /\ n >= 0
                  /\ t.remote = SubSeq(firmware, n + 1, Len(firmware))
                  /\ \A k \in 1 .. Len(t.remote) : t.remote[k] # "/"
                  /\ n > 0 => firmware[n] = "/"

\* a transfer of the path "a/a" under the name "a", with the other timeout
C16_Witness ==
    /\ UploadReturned
    /\ firmware = << "a", "/", "a" >>
    /\ timeout = 5
    /\ Len(sessions) = 2
    /\ sessions[2].remote = << "a" >>

\* C17: the k-th configuration of a run is the one of candidate 192.168.1.(k+1),
\* with netmask 24 and gateway 192.168.1.1, so candidates come in increasing
\* order from 192.168.1.2 and none is configured twice; each configuration is
\* followed by one settle pause and then one probe, before the next
\* configuration; a sweep probe targets 192.168.1.1, never the candidate.
C17_SweepOrder ==
    /\ nConfig <= 24
    /\ nConfig >= 1 =>
          cfgArgs = [ interface |-> interface, ip |-> << 192, 168, 1, nConfig + 1 >>,
                      netmask |-> 24, gateway |-> << 192, 168, 1, 1 >> ]
    /\ nSettle = IF pc \in CfgPcs \cup { "sweep_sleep" } THEN nConfig - 1 ELSE nConfig
    /\ nProbe = nUfCalls + nSettle
    /\ pingCaller = "sweep" =>
          /\ nSettle >= 1
          /\ pingIp = << 192, 168, 1, 1 >>
          /\ pingIp # cfgArgs.ip

\* the probe of the third candidate, 192.168.1.4, has failed
C17_Witness ==
    /\ pc = "sweep_after_ping"
    /\ ~ pingRet
    /\ nConfig = 3
    /\ nSettle = 3
    /\ cfgArgs.ip = << 192, 168, 1, 4 >>
    /\ pingIp = << 192, 168, 1, 1 >>

\* C18: ping_host waits only between two attempts: when it has returned false
\* after retries failed echoes (retries >= 1), it has waited retries - 1
\* times, delay each time, and not after the last echo.
C18_WaitsOnlyBetweenAttempts ==
    (~ no_ping /\ PingReturned /\ ~ pingRet /\ pingRetries >= 1) =>
        /\ nPingSleep = pingRetries - 1
        /\ slept = (pingRetries - 1) * pingDelay

\* the bounds of a run: probes, echoes, configurations, uploads
RunBounds ==
    /\ nProbe <= 1 + 24
    /\ Len(echoRcs) <= 3
    /\ nEcho <= 3 * nProbe
    /\ nConfig <= 24
    /\ nSettle <= 24
    /\ nPrompt <= 1
    /\ Len(uploads) <= 1

\* C19: when every echo and upload call returns and the operator answers the
\* prompt, every run reaches its exit; and a run makes at most 1 + 24 probes
\* of at most 3 echoes each, at most 24 configurations and at most 1 upload.
C19_Terminates == <>(pc = "exit") /\ []RunBounds

\* a run that has made all 25 probes and 24 configurations and has exited
C19_Witness ==
    /\ pc = "exit"
    /\ nProbe = 25
    /\ nConfig = 24
    /\ nEcho = 75

\* the error-severity entries of the log
ErrorEntries == { k \in 1 .. Len(log) : log[k].level = "error" }

\* C20: a run that exits with a failure has written an error-severity entry,
\* and a call of configure_interface with a rejected command has, by its
\* return, written an error-severity entry of its own.
C20_EveryFailureLogged ==
    /\ (pc = "exit" /\ exitCode # 0) => ErrorEntries # {}
    /\ (ConfigFailed /\ pc = "sweep_sleep") => ErrorEntries # {}

\* C21: a step of a run that has not entered the sweep leaves the addresses,
\* the link state and the default route of the interface as they are; so does
\* every step of a run whose direct probe reported reachable, whose probing is
\* bypassed, or whose operator has declined.
C21_NoSweepNoChange ==
    [][ ( \/ nSweep' = 0
          \/ no_ping
          \/ DirectReachable'
          \/ (nPrompt' >= 1 /\ ans' # << "y" >>) )
        => (iface' = iface /\ route' = route) ]_vars

\* a declined run has exited, the interface holding its address and route
C21_Witness ==
    /\ pc = "exit"
    /\ nSweep = 0
    /\ nPrompt = 1
    /\ ans = << "n" >>
    /\ iface = [ addrs |-> { << << 10, 0, 0, 7 >>, 8 >> }, up |-> TRUE ]
    /\ route = << 10, 0, 0, 254 >>

\* the line t is "y" or "Y" with nothing but blanks around it
IsLetterY(t) ==
    \E k \in 1 .. Len(t) :
        /\ t[k] \in { "y", "Y" }
        /\ \A j \in 1 .. Len(t) : j # k => t[j] = " "

\* C22: try_default_ip_range is called only by the step that reads the
\* operator's line, after a failed direct probe, and exactly when that line,
\* stripped and lowered, is "y"; on any other line, the empty one and "yes"
\* included, upload_firmware returns false, nothing is configured, and the
\* run exits with code 1.
C22_SweepIffYes ==
    [][ /\ nSweep' # nSweep =>
              /\ pc = "uf_answer"
              /\ nSweep = 0
              /\ nProbe = 1
              /\ ~ pingRet
              /\ lastProbe[hostname] = "unreachable"
        /\ pc = "uf_answer" =>
              /\ nSweep' = 1 <=> IsLetterY(typed)
              /\ ~ IsLetterY(typed) =>
                    /\ pc' = "main_result"
                    /\ ~ ufRet'
                    /\ nConfig' = 0
        /\ (nPrompt = 1 /\ nSweep = 0) =>
              /\ nSweep' = 0
              /\ nConfig' = 0
              /\ pc' = "exit" => exitCode' = 1 ]_vars

\* the run has exited with code 1 on the answer "yes", nothing configured
C22_Witness ==
    /\ pc = "exit"
    /\ exitCode = 1
    /\ ans = << "y", "e", "s" >>
    /\ nSweep = 0
    /\ nConfig = 0

\* C23: with the bypass flag set, a run never prompts, never calls
\* try_default_ip_range or configure_interface and never runs an echo; once
\* upload_firmware has returned it has made exactly one upload, against the
\* caller's host, and a failed upload has made it return false, the run
\* exiting with code 1.
C23_BypassOneUpload ==
    no_ping =>
        /\ nPrompt = 0
        /\ typed = << >>
        /\ nSweep = 0
        /\ nConfig = 0
        /\ cfgDone = << >>
        /\ nEcho = 0
        /\ pc \in { "main_validate_interface", "main_validate_firmware", "uf_entry",
                    "ping_entry", "uf_after_ping", "upload", "upload_return",
                    "main_result", "exit" }
        /\ uploads \in { << >>, OneUpload(hostname) }
        /\ Len(sessions) <= 2
        /\ (nUfCalls = 1 /\ pc \in { "main_result", "exit" }) =>
              /\ uploads = OneUpload(hostname)
              /\ ufRet = upRet
              /\ pc = "exit" => exitCode = IF upRet THEN 0 ELSE 1

\* a bypassed run whose upload failed has exited with code 1
C23_Witness ==
    /\ no_ping
    /\ pc = "exit"
    /\ exitCode = 1
    /\ Len(uploads) = 1
    /\ ~ upRet
    /\ tftpOutcome.raisedBy = "upload"

\* the prompt is on the screen, or has been answered
Prompted == pc \in { "uf_prompt", "uf_answer" } \/ nPrompt >= 1

\* C24: a run prompts at most once; while the prompt waits, the one probe made
\* is the direct probe of the caller's host, and it has returned false after
\* 3 failed echoes; nothing is configured before the prompt has been answered,
\* and then only on the answer "y".
C24_PromptAfterExhaustedProbe ==
    /\ nPrompt <= 1
    /\ pc \in { "uf_prompt", "uf_answer" } =>
          /\ nPrompt = 0
          /\ nProbe = 1
          /\ pingCaller = "direct"
          /\ pingIp = hostname
          /\ ~ pingRet
          /\ echoRcs = << 1, 1, 1 >>
          /\ nEcho = 3
    /\ Prompted => (~ no_ping /\ nEcho >= 3)
    /\ nPrompt = 0 => (nSweep = 0 /\ nConfig = 0 /\ cfgDone = << >>)
    /\ nConfig >= 1 => (nPrompt = 1 /\ ans = << "y" >>)

\* the prompt waits for the operator's line, after three failed echoes
C24_Witness ==
    /\ pc = "uf_answer"
    /\ typed = << "y" >>
    /\ nEcho = 3
    /\ nPrompt = 0
    /\ nConfig = 0

\* C25: once try_default_ip_range has returned, the interface holds the
\* configuration of the last candidate configured and nothing of what it held
\* at the start: the one address 192.168.1.N/24 of that candidate
\* (192.168.1.25 after 24 failed probes), the link up, and the default route
\* via 192.168.1.1.
C25_LastCandidateConfig ==
    SweepReturned =>
        /\ nConfig >= 1
        /\ ProbeResult(<< 192, 168, 1, 1 >>) # "reachable" => nConfig = 24
        /\ iface = [ addrs |-> { << << 192, 168, 1, nConfig + 1 >>, 24 >> },
                     up |-> TRUE ]
        /\ route = << 192, 168, 1, 1 >>

=============================================================================
